---- MODULE Spec2Model ----
(***************************************************************************)
(* Model of umodel_tools/map_importer.py: the classification of FModel     *)
(* JSON entity records (StaticMesh, GameLight) and the assembly loop of    *)
(* MapImporter._import_map.                                                *)
(*                                                                         *)
(* A JSON mapping is a function whose DOMAIN is the set of keys present;   *)
(* dict.get(key) yields an optional value: <<>> for Python's None and      *)
(* <<v>> for a value v.  A Python exception is a result with raised = TRUE *)
(* that aborts the import (pc = "raised").                                 *)
(***************************************************************************)
EXTENDS Integers, Sequences, FiniteSets, TLC

\* ------------------------------------------------------------------------
\* Bounds of the model
\* ------------------------------------------------------------------------
MaxRecords == 2      \* longest record sequence of the source document
MaxInstances == 2    \* longest PerInstanceSMData array

\* ------------------------------------------------------------------------
\* Python values
\* ------------------------------------------------------------------------
None == <<>>
Some(v) == <<v>>
IsNone(o) == o = <<>>
Val(o) == o[1]

\* dict.get(key, None)
Get(m, k) == IF k \in DOMAIN m THEN Some(m[k]) ELSE None

\* dict.get(key, default)
GetOr(m, k, default) == IF k \in DOMAIN m THEN m[k] ELSE default

\* truth value of a mapping: the empty mapping is falsy
TruthyMap(m) == DOMAIN m # {}

\* ------------------------------------------------------------------------
\* Numbers: a float that is the quotient of two integers is kept exact as a
\* reduced fraction [n, d] with d > 0.
\* ------------------------------------------------------------------------
Abs(i) == IF i < 0 THEN -i ELSE i

RECURSIVE Gcd(_, _)
Gcd(a, b) == IF b = 0 THEN a ELSE Gcd(b, a % b)

\* x / k for integers x and k # 0 (Python true division)
Div(x, k) ==
    LET s == IF k < 0 THEN -1 ELSE 1
        g == Gcd(Abs(x), Abs(k))
    IN  [n |-> (s * x) \div g, d |-> Abs(k) \div g]

Zero == [n |-> 0, d |-> 1]

\* math.radians(deg): deg * pi / 180, kept as the exact fraction of pi
radians(deg) == [pi_times |-> Div(deg, 180)]

ZeroAngle == radians(0)

\* mu.Quaternion((w, x, y, z)).to_euler(): the identity quaternion gives the
\* zero rotation; any other is kept as the named Euler component of q.
EulerOf(q, axis) ==
    IF q = <<1, 0, 0, 0>> THEN ZeroAngle ELSE [euler_of |-> q, axis |-> axis, neg |-> FALSE]

\* -angle
NegAngle(a) ==
    IF "pi_times" \in DOMAIN a
    THEN [pi_times |-> [n |-> -a.pi_times.n, d |-> a.pi_times.d]]
    ELSE [a EXCEPT !.neg = ~a.neg]

\* ------------------------------------------------------------------------
\* InstanceTransform
\* ------------------------------------------------------------------------
InstanceTransform ==
    [pos |-> <<Zero, Zero, Zero>>,
     rot_euler |-> <<ZeroAngle, ZeroAngle, ZeroAngle>>,
     scale |-> <<1, 1, 1>>]

\* trs.matrix_4x4 @ instance_trs.matrix_4x4, kept as the ordered product
MatMul(base, inst) == <<base, inst>>

\* ------------------------------------------------------------------------
\* Strings that the code takes apart (object paths) are sequences of tokens:
\* "/" is os.sep, "." is a period, every other token is a run of characters.
\* ------------------------------------------------------------------------
sep == "/"

\* index of the first period of a path, 0 when it has none
RECURSIVE FirstPeriod(_, _)
FirstPeriod(path, i) ==
    IF i > Len(path) THEN 0
    ELSE IF path[i] = "." THEN i ELSE FirstPeriod(path, i + 1)

split_object_path(object_path) ==
    LET i == FirstPeriod(object_path, 1)
    IN  IF i > 0 THEN SubSeq(object_path, 1, i - 1) ELSE object_path

\* 'BasicShapes' in object_path
ContainsBasicShapes(object_path) ==
    \E i \in 1..Len(object_path) : object_path[i] = "BasicShapes"

\* os.path.normpath for paths without "." and ".." components: runs of
\* separators collapse to one and a trailing separator is dropped (a leading
\* run of exactly two separators is kept, as POSIX asks).
RECURSIVE Collapse(_)
Collapse(path) ==
    IF Len(path) = 0 THEN path
    ELSE IF Head(path) = sep /\ (Len(path) = 1 \/ path[2] = sep) THEN Collapse(Tail(path))
    ELSE <<Head(path)>> \o Collapse(Tail(path))

RECURSIVE LeadingSeps(_)
LeadingSeps(path) ==
    IF Len(path) > 0 /\ Head(path) = sep THEN 1 + LeadingSeps(Tail(path)) ELSE 0

normpath(path) ==
    LET lead == LeadingSeps(path)
        body == Collapse(SubSeq(path, lead + 1, Len(path)))
        initial == IF lead = 0 THEN <<>> ELSE IF lead = 2 THEN <<sep, sep>> ELSE <<sep>>
    IN  IF path = <<>> THEN <<".">>
        ELSE initial \o body

\* lines 104-107: the asset path of an object path
AssetPathOf(object_path) ==
    LET objpath == split_object_path(object_path)
        normed == normpath(objpath \o <<".uasset">>)
    IN  IF Len(normed) > 0 /\ Head(normed) = sep THEN Tail(normed) ELSE normed

\* ------------------------------------------------------------------------
\* Coordinate conversion, as written at each place a block is read.
\* Arithmetic on a missing component (None / 100, None * -1,
\* math.radians(None), mu.Quaternion((None, ...))) raises TypeError.
\* ------------------------------------------------------------------------
HasAll(m, keys) == keys \subseteq DOMAIN m

\* (pos.get("X") / 100, pos.get("Y") / -100, pos.get("Z") / 100)
PosRaises(pos) == ~HasAll(pos, {"X", "Y", "Z"})
ConvertPos(pos) == <<Div(pos.X, 100), Div(pos.Y, -100), Div(pos.Z, 100)>>

\* (radians(Roll), radians(Pitch * -1), radians(Yaw * -1))
MeshRotRaises(rot) == ~HasAll(rot, {"Roll", "Pitch", "Yaw"})
ConvertMeshRot(rot) == <<radians(rot.Roll), radians(rot.Pitch * (-1)), radians(rot.Yaw * (-1))>>

\* (scale.get("X", 1), scale.get("Y", 1), scale.get("Z", 1))
ConvertScale(scale) == <<GetOr(scale, "X", 1), GetOr(scale, "Y", 1), GetOr(scale, "Z", 1)>>

\* Quaternion((W, X, Y, Z)).to_euler(), then (-x, y, -z)
QuatRaises(rot) == ~HasAll(rot, {"W", "X", "Y", "Z"})
ConvertQuat(rot) ==
    LET q == <<rot.W, rot.X, rot.Y, rot.Z>>
    IN  <<NegAngle(EulerOf(q, "x")), EulerOf(q, "y"), NegAngle(EulerOf(q, "z"))>>

\* ------------------------------------------------------------------------
\* StaticMesh
\* ------------------------------------------------------------------------
\* as static_mesh_types, with one more component type
static_mesh_types_WithSkeletal ==
    {"StaticMeshComponent", "InstancedStaticMeshComponent", "HierarchicalInstancedStaticMeshComponent",
     "SkeletalMeshComponent"}

static_mesh_types ==
    {"StaticMeshComponent", "InstancedStaticMeshComponent", "HierarchicalInstancedStaticMeshComponent"}

UserConstructionScript == "EComponentCreationMethod::UserConstructionScript"

\* The attributes of a StaticMesh object as the class body sets them, with
\* entity_name and instance_transforms as lines 73-74 set them.  transform is
\* None until the constructor assigns it.  raised is TRUE when the constructor
\* did not return but raised.
NewStaticMesh(json_entity) ==
    [raised |-> FALSE,
     entity_name |-> GetOr(json_entity, "Outer", "Error"),
     asset_path |-> <<>>,
     transform |-> None,
     instance_transforms |-> <<>>,
     no_entity |-> FALSE,
     no_mesh |-> FALSE,
     no_path |-> FALSE,
     no_per_instance_data |-> FALSE,
     base_shape |-> FALSE,
     is_instanced |-> FALSE,
     not_rendered |-> FALSE,
     invisible |-> FALSE,
     bad_creation_method |-> FALSE]

\* lines 111-124 and 133-146: the transform of the component itself
ComponentTransform(props) ==
    LET pos == Get(props, "RelativeLocation")
        rot == Get(props, "RelativeRotation")
        scale == Get(props, "RelativeScale3D")
    IN  IF (~IsNone(pos) /\ PosRaises(Val(pos))) \/ (~IsNone(rot) /\ MeshRotRaises(Val(rot)))
        THEN [raised |-> TRUE, trs |-> InstanceTransform]
        ELSE [raised |-> FALSE,
              trs |-> [pos |-> IF IsNone(pos) THEN InstanceTransform.pos ELSE ConvertPos(Val(pos)),
                       rot_euler |-> IF IsNone(rot) THEN InstanceTransform.rot_euler
                                     ELSE ConvertMeshRot(Val(rot)),
                       scale |-> IF IsNone(scale) THEN InstanceTransform.scale
                                 ELSE ConvertScale(Val(scale))]]

\* lines 149-161: the transform of one element of PerInstanceSMData
PerInstanceTransform(instance) ==
    LET trs_data == Get(instance, "TransformData")
        pos == IF IsNone(trs_data) THEN None ELSE Get(Val(trs_data), "Translation")
        rot == IF IsNone(trs_data) THEN None ELSE Get(Val(trs_data), "Rotation")
        scale == IF IsNone(trs_data) THEN None ELSE Get(Val(trs_data), "Scale3D")
    IN  IF (~IsNone(pos) /\ PosRaises(Val(pos))) \/ (~IsNone(rot) /\ QuatRaises(Val(rot)))
        THEN [raised |-> TRUE, trs |-> InstanceTransform]
        ELSE [raised |-> FALSE,
              trs |-> [pos |-> IF IsNone(pos) THEN InstanceTransform.pos ELSE ConvertPos(Val(pos)),
                       rot_euler |-> IF IsNone(rot) THEN InstanceTransform.rot_euler
                                     ELSE ConvertQuat(Val(rot)),
                       scale |-> IF IsNone(scale) THEN InstanceTransform.scale
                                 ELSE ConvertScale(Val(scale))]]

\* lines 148-163: the loop over the instances; it stops at the first raise
RECURSIVE PerInstanceTransforms(_)
PerInstanceTransforms(instances) ==
    IF instances = <<>> THEN [raised |-> FALSE, list |-> <<>>]
    ELSE LET first == PerInstanceTransform(Head(instances))
             rest == PerInstanceTransforms(Tail(instances))
         IN  IF first.raised \/ rest.raised
             THEN [raised |-> TRUE, list |-> <<>>]
             ELSE [raised |-> FALSE, list |-> <<first.trs>> \o rest.list]

\* as LacksPerInstanceData, but an empty array counts as absent
LacksPerInstanceData_OrEmpty(instances) == IsNone(instances) \/ Val(instances) = <<>>

\* line 129: json_entity.get("PerInstanceSMData", None) is None
LacksPerInstanceData(instances) == IsNone(instances)

\* StaticMesh.__init__(json_entity, entity_type), for entity_type in
\* static_mesh_types
StaticMesh(json_entity, entity_type) ==
    LET self == NewStaticMesh(json_entity)
        props == Get(json_entity, "Properties")
        mesh == Get(Val(props), "StaticMesh")
        object_path == Get(Val(mesh), "ObjectPath")
        render_in_main_pass == Get(Val(props), "bRenderInMainPass")
        is_visbile == Get(Val(props), "bVisible")
        creation_method == Get(Val(props), "CreationMethod")
        checked == [self EXCEPT
                      !.invisible = ~IsNone(is_visbile) /\ ~Val(is_visbile),
                      !.bad_creation_method =
                          ~IsNone(creation_method) /\ Val(creation_method) = UserConstructionScript,
                      !.asset_path = AssetPathOf(Val(object_path))]
        trs == ComponentTransform(Val(props))
        instances == Get(json_entity, "PerInstanceSMData")
        per_instance == PerInstanceTransforms(Val(instances))
    IN  IF IsNone(props) \/ ~TruthyMap(Val(props)) THEN [self EXCEPT !.no_entity = TRUE]
        ELSE IF IsNone(mesh) \/ ~TruthyMap(Val(mesh)) THEN [self EXCEPT !.no_mesh = TRUE]
        ELSE IF IsNone(object_path) \/ Val(object_path) = <<>> THEN [self EXCEPT !.no_path = TRUE]
        ELSE IF ContainsBasicShapes(Val(object_path)) THEN [self EXCEPT !.base_shape = TRUE]
        ELSE IF ~IsNone(render_in_main_pass) /\ ~Val(render_in_main_pass)
             THEN [self EXCEPT !.not_rendered = TRUE]
        ELSE IF entity_type = "StaticMeshComponent"
             THEN IF trs.raised THEN [checked EXCEPT !.raised = TRUE]
                  ELSE [checked EXCEPT !.transform = Some(trs.trs)]
        ELSE IF LacksPerInstanceData(instances)
             THEN [checked EXCEPT !.is_instanced = TRUE, !.no_per_instance_data = TRUE]
        ELSE IF trs.raised THEN [checked EXCEPT !.is_instanced = TRUE, !.raised = TRUE]
        ELSE IF per_instance.raised
             THEN [checked EXCEPT !.is_instanced = TRUE, !.transform = Some(trs.trs), !.raised = TRUE]
        ELSE [checked EXCEPT !.is_instanced = TRUE,
                             !.transform = Some(trs.trs),
                             !.instance_transforms = per_instance.list]

\* as StaticMeshInvalid, with base_shape left out
StaticMeshInvalid_WithoutBaseShape(self) ==
    \/ self.no_path \/ self.no_entity \/ self.no_mesh
    \/ self.no_per_instance_data \/ self.not_rendered
    \/ self.invisible \/ self.bad_creation_method

\* StaticMesh.invalid
StaticMeshInvalid(self) ==
    \/ self.no_path \/ self.no_entity \/ self.base_shape \/ self.no_mesh
    \/ self.no_per_instance_data \/ self.not_rendered
    \/ self.invisible \/ self.bad_creation_method

\* bpy.data.objects.new(obj.name, object_data=obj.data) as placed by lines
\* 190-194
NewMeshObject(obj, trs) ==
    [name |-> obj.name,
     data |-> obj.data,
     scale |-> trs.scale,
     location |-> trs.pos,
     rotation_mode |-> "XYZ",
     rotation_euler |-> trs.rot_euler]

\* bpy.data.objects.new(obj.name, object_data=obj.data) as placed by lines
\* 182-185
NewInstanceObject(obj, trs, instance_trs) ==
    [name |-> obj.name,
     data |-> obj.data,
     rotation_mode |-> "XYZ",
     matrix_world |-> MatMul(trs, instance_trs)]

\* StaticMesh.link_object_instance(obj, collection): the objects it links
\* into collection, in order
link_object_instance(self, obj) ==
    IF StaticMeshInvalid(self) THEN <<>>
    ELSE IF self.is_instanced
         THEN [i \in 1..Len(self.instance_transforms) |->
                  NewInstanceObject(obj, Val(self.transform), self.instance_transforms[i])]
         ELSE <<NewMeshObject(obj, Val(self.transform))>>

\* ------------------------------------------------------------------------
\* GameLight
\* ------------------------------------------------------------------------
light_types == {"SpotLightComponent", "PointLightComponent"}

\* A colour is [rgb |-> <<r, g, b>>] with exact decimal fractions, or the
\* value of the band polynomials [band |-> i, temp |-> T] for a temperature
\* inside the table.
White == [rgb |-> <<Div(1, 1), Div(1, 1), Div(1, 1)>>]

\* GameLight.temp_to_color(temp)
temp_to_color(temp) ==
    IF temp >= 12000 THEN [rgb |-> <<Div(826270103, 1000000000), Div(994478524, 1000000000),
                                         Div(156626022, 100000000)>>]
    ELSE IF temp < 965 THEN [rgb |-> <<Div(470366907, 100000000), Zero, Zero>>]
    ELSE [band |-> IF temp >= 6365 THEN 5
                   ELSE IF temp >= 3315 THEN 4
                   ELSE IF temp >= 1902 THEN 3
                   ELSE IF temp >= 1449 THEN 2
                   ELSE IF temp >= 1167 THEN 1
                   ELSE 0,
          temp |-> temp]

\* The attributes of a GameLight object as the class body sets them, with
\* entity_name and type as lines 285-286 set them.  rot is in degrees, each
\* component an optional number.
NewGameLight(json_entity) ==
    [raised |-> FALSE,
     type |-> Get(json_entity, "Type"),
     entity_name |-> GetOr(json_entity, "Outer", "Error"),
     pos |-> <<Zero, Zero, Zero>>,
     rot |-> <<Some(0), Some(0), Some(0)>>,
     scale |-> <<1, 1, 1>>,
     color |-> White,
     no_entity |-> FALSE]

\* GameLight.__init__(json_entity)
GameLight(json_entity) ==
    LET self == NewGameLight(json_entity)
        props == Get(json_entity, "Properties")
        pos == Get(Val(props), "RelativeLocation")
        rot == Get(Val(props), "RelativeRotation")
        scale == Get(Val(props), "RelativeScale3D")
        temp == Get(Val(props), "Temperature")
        has_pos == ~IsNone(pos) /\ TruthyMap(Val(pos))
        has_scale == ~IsNone(scale) /\ TruthyMap(Val(scale))
    IN  IF IsNone(self.type) \/ Val(self.type) = "" THEN [self EXCEPT !.no_entity = TRUE]
        ELSE IF IsNone(props) \/ ~TruthyMap(Val(props)) THEN [self EXCEPT !.no_entity = TRUE]
        ELSE IF has_pos /\ PosRaises(Val(pos)) THEN [self EXCEPT !.raised = TRUE]
        ELSE IF ~IsNone(rot) /\ "Yaw" \notin DOMAIN Val(rot)
             THEN [self EXCEPT !.raised = TRUE,
                               !.pos = IF has_pos THEN ConvertPos(Val(pos)) ELSE @]
        ELSE [self EXCEPT
                !.pos = IF has_pos THEN ConvertPos(Val(pos)) ELSE @,
                !.rot = IF IsNone(rot) THEN @
                        ELSE <<Get(Val(rot), "Roll"), Get(Val(rot), "Pitch"), Some(Val(rot).Yaw * (-1))>>,
                !.scale = IF has_scale THEN ConvertScale(Val(scale)) ELSE @,
                !.color = IF IsNone(temp) THEN @ ELSE temp_to_color(Val(temp))]

\* GameLight.invalid
GameLightInvalid(self) == self.no_entity

\* bpy.data.lights.new(name=self.entity_name, type=...) with the colour that
\* line 338 gives it
NewLightData(self) ==
    [name |-> self.entity_name,
     type |-> IF Val(self.type) = "SpotLightComponent" THEN "SPOT" ELSE "POINT",
     color |-> self.color]

\* GameLight.import_light(collection): the objects it links into collection
\* (and into the scene collection), and whether it raised before linking
import_light(self) ==
    IF self.no_entity THEN [raised |-> FALSE, linked |-> <<>>, returned |-> FALSE]
    ELSE IF \E i \in 1..3 : IsNone(self.rot[i])
         THEN [raised |-> TRUE, linked |-> <<>>, returned |-> FALSE]
    ELSE [raised |-> FALSE,
          linked |-> <<[name |-> self.entity_name,
                        data |-> NewLightData(self),
                        scale |-> self.scale,
                        location |-> self.pos,
                        rotation_mode |-> "XYZ",
                        rotation_euler |-> <<radians(Val(self.rot[1])),
                                             radians(Val(self.rot[2])),
                                             radians(Val(self.rot[3]))>>]>>,
          returned |-> TRUE]

\* ------------------------------------------------------------------------
\* The source documents of the model: JSON arrays of at most MaxRecords
\* entity records drawn from the catalogue SampleEntities.
\* ------------------------------------------------------------------------
RockPath == <<sep, "Game", sep, "Rock", ".", "0">>
TreePath == <<"Game", sep, sep, "Tree", ".", "1">>
CubePath == <<sep, "Engine", sep, "BasicShapes", sep, "Cube", ".", "0">>

MeshRef(object_path) == [StaticMesh |-> [ObjectName |-> "StaticMesh", ObjectPath |-> object_path]]

Location == [X |-> 100, Y |-> 200, Z |-> 300]
LocationNoX == [Y |-> 200, Z |-> 300]
Rotation == [Roll |-> 10, Pitch |-> 20, Yaw |-> 30]
RotationNoYaw == [Roll |-> 10, Pitch |-> 20]
RotationNoRoll == [Pitch |-> 20, Yaw |-> 30]
ScaleNoZ == [X |-> 2, Y |-> 3]
Quat == [W |-> 0, X |-> 0, Y |-> 0, Z |-> 1]
QuatNoW == [X |-> 0, Y |-> 0, Z |-> 1]

PlacedProps ==
    [bRenderInMainPass |-> TRUE, bVisible |-> TRUE,
     CreationMethod |-> "EComponentCreationMethod::Native",
     RelativeLocation |-> Location, RelativeRotation |-> Rotation, RelativeScale3D |-> ScaleNoZ]

\* Properties of the static-mesh family records
MeshProperties ==
    <<[bVisible |-> TRUE],
      [StaticMesh |-> [ObjectName |-> "StaticMesh"]],
      MeshRef(CubePath),
      MeshRef(RockPath) @@ [bRenderInMainPass |-> FALSE],
      MeshRef(RockPath) @@ [bVisible |-> FALSE],
      MeshRef(RockPath) @@ [CreationMethod |-> UserConstructionScript],
      MeshRef(RockPath),
      MeshRef(TreePath) @@ PlacedProps,
      MeshRef(RockPath) @@ [RelativeLocation |-> LocationNoX],
      MeshRef(RockPath) @@ [RelativeRotation |-> RotationNoYaw]>>

\* The elements of PerInstanceSMData: without TransformData and with a
\* complete one
InstanceElements ==
    <<[Index |-> 0],
      [TransformData |-> [Translation |-> Location, Rotation |-> Quat, Scale3D |-> ScaleNoZ]]>>

\* an element whose Translation and Rotation blocks lack a component
IncompleteInstance == [TransformData |-> [Translation |-> LocationNoX, Rotation |-> QuatNoW]]

\* the array of n elements that takes the elements of InstanceElements in
\* turn, starting with the one at place first
Alternating(n, first) ==
    [i \in 1..n |-> InstanceElements[((first + i) % Len(InstanceElements)) + 1]]

\* for every length up to n, the alternating arrays of that length
RECURSIVE ArraysUpTo(_)
ArraysUpTo(n) ==
    IF n = 0 THEN << <<>> >>
    ELSE ArraysUpTo(n - 1) \o [first \in DOMAIN InstanceElements |-> Alternating(n, first)]

InstanceArrays == ArraysUpTo(MaxInstances)

StaticMeshRecords ==
    <<[Type |-> "StaticMeshComponent", Outer |-> "Rock"]>>
    \o [i \in DOMAIN MeshProperties |-> [Type |-> "StaticMeshComponent", Properties |-> MeshProperties[i]]]

InstancedRecords ==
    <<[Type |-> "InstancedStaticMeshComponent", Outer |-> "Forest", Properties |-> MeshRef(TreePath) @@ PlacedProps],
      [Type |-> "InstancedStaticMeshComponent", Outer |-> "Forest",
       Properties |-> MeshRef(TreePath) @@ PlacedProps, PerInstanceSMData |-> <<IncompleteInstance>>],
      [Type |-> "InstancedStaticMeshComponent", Properties |-> MeshRef(CubePath),
       PerInstanceSMData |-> <<[Index |-> 0]>>],
      [Type |-> "HierarchicalInstancedStaticMeshComponent", Properties |-> MeshRef(RockPath),
       PerInstanceSMData |-> <<[Index |-> 0]>>]>>
    \o [i \in DOMAIN InstanceArrays |->
           [Type |-> "InstancedStaticMeshComponent", Outer |-> "Forest",
            Properties |-> MeshRef(TreePath) @@ PlacedProps, PerInstanceSMData |-> InstanceArrays[i]]]

LightRecords ==
    <<[Type |-> "PointLightComponent", Outer |-> "Lamp"],
      [Type |-> "PointLightComponent", Outer |-> "Lamp", Properties |-> [Temperature |-> 6500]],
      [Type |-> "PointLightComponent", Outer |-> "Lamp", Properties |-> [RelativeRotation |-> RotationNoYaw]],
      [Type |-> "PointLightComponent", Outer |-> "Lamp", Properties |-> [RelativeRotation |-> RotationNoRoll]],
      [Type |-> "SpotLightComponent", Outer |-> "Spot",
       Properties |-> [RelativeLocation |-> Location, RelativeRotation |-> Rotation,
                       RelativeScale3D |-> ScaleNoZ]]>>

OtherRecords ==
    <<[Outer |-> "Untyped", Properties |-> MeshRef(RockPath)],
      [Type |-> "", Properties |-> MeshRef(RockPath)],
      [Type |-> "SkeletalMeshComponent", Properties |-> MeshRef(RockPath)]>>

\* the catalogue of records; a document names its records by their place in it
SampleEntities == StaticMeshRecords \o InstancedRecords \o LightRecords \o OtherRecords

Documents == UNION {[1..n -> DOMAIN SampleEntities] : n \in 0..MaxRecords}

\* the asset paths the documents make the importer ask for
AssetPaths == {AssetPathOf(RockPath), AssetPathOf(TreePath)}

\* ------------------------------------------------------------------------
\* AssetImporter._load_asset(asset_path=..., load=True, ...): the object of
\* the asset, or None when the asset cannot be resolved.  resolvable is the
\* set of asset paths it resolves.
\* ------------------------------------------------------------------------
_load_asset(asset_path, resolvable_paths) ==
    IF asset_path \in resolvable_paths
    THEN Some([name |-> asset_path[Len(asset_path) - 1], data |-> [mesh |-> asset_path]])
    ELSE None

\* ------------------------------------------------------------------------
\* State
\* ------------------------------------------------------------------------
VARIABLES
    source,             \* the file at map_path: "missing", "unparsable" or "ok"
    document,           \* the records of the document, by place in SampleEntities
    resolvable,         \* the asset paths that _load_asset resolves
    pc,                 \* "start", "loop", "returned" or "raised"
    entity_index,       \* index of the next record of the loop
    scene_children,     \* collections linked into the scene by this import
    import_collection,  \* import_collection.objects, in link order
    scene_objects,      \* objects linked into the scene collection itself
    static_mesh,        \* the local variable static_mesh: None while unbound, else
                        \* Some(entity_name), the one attribute read from it
    constructed,        \* the constructor calls made: <<index, class>>
    load_asset_calls,   \* the _load_asset calls made: <<index, asset_path>>
    timers,             \* callbacks registered with bpy.app.timers, not yet run
    reloads,            \* number of runs of _library_reload
    result,             \* the value _import_map returned, None before it returns
    exception           \* the exception that left _import_map, "" if none

vars == <<source, document, resolvable, pc, entity_index, scene_children, import_collection,
          scene_objects, static_mesh, constructed, load_asset_calls, timers, reloads, result,
          exception>>

inputs == <<source, document, resolvable>>

\* json.load(file): the array of records
json_object == [i \in DOMAIN document |-> SampleEntities[document[i]]]

Init ==
    /\ source \in {"missing", "unparsable", "ok"}
    /\ document \in (IF source = "ok" THEN Documents ELSE {<<>>})
    /\ resolvable \in (IF source = "ok" THEN SUBSET AssetPaths ELSE {{}})
    /\ pc = "start"
    /\ entity_index = 1
    /\ scene_children = 0
    /\ import_collection = <<>>
    /\ scene_objects = <<>>
    /\ static_mesh = None
    /\ constructed = <<>>
    /\ load_asset_calls = <<>>
    /\ timers = 0
    /\ reloads = 0
    /\ result = None
    /\ exception = ""

\* the record of the current loop iteration
InLoop == pc = "loop" /\ entity_index <= Len(document)
entity == SampleEntities[document[entity_index]]
entity_type == Get(entity, "Type")
HasType == ~IsNone(entity_type) /\ Val(entity_type) # ""

\* an exception leaves _import_map
Raise(name) ==
    /\ pc' = "raised"
    /\ exception' = name
    /\ UNCHANGED <<entity_index, result, timers>>

\* `continue`, or the end of the loop body
NextEntity ==
    /\ entity_index' = entity_index + 1
    /\ UNCHANGED <<pc, exception, result, timers>>

\* lines 371-381: the file is looked up, the collection created and linked,
\* the file opened and parsed
Begin ==
    /\ pc = "start"
    /\ IF source = "missing"
       THEN /\ pc' = "returned"
            /\ result' = Some(FALSE)
            /\ UNCHANGED <<scene_children, exception>>
       ELSE /\ scene_children' = scene_children + 1
            /\ IF source = "unparsable"
               THEN pc' = "raised" /\ exception' = "JSONDecodeError"
               ELSE pc' = "loop" /\ exception' = exception
            /\ UNCHANGED result
    /\ UNCHANGED <<inputs, entity_index, import_collection, scene_objects, static_mesh, constructed,
                   load_asset_calls, timers, reloads>>

\* lines 390-391: a record without Type
SkipNoType ==
    /\ InLoop
    /\ ~HasType
    /\ NextEntity
    /\ UNCHANGED <<inputs, scene_children, import_collection, scene_objects, static_mesh, constructed,
                   load_asset_calls, reloads>>

\* lines 396-417: a record of the static-mesh family
ImportStaticMesh ==
    /\ InLoop
    /\ HasType
    /\ Val(entity_type) \in static_mesh_types
    /\ LET mesh == StaticMesh(entity, Val(entity_type))
           obj == _load_asset(mesh.asset_path, resolvable)
       IN  /\ constructed' = Append(constructed, <<entity_index, "StaticMesh">>)
           /\ IF mesh.raised
              THEN /\ Raise("TypeError")
                   /\ UNCHANGED <<static_mesh, load_asset_calls, import_collection>>
              ELSE /\ static_mesh' = Some(mesh.entity_name)
                   /\ NextEntity
                   /\ IF StaticMeshInvalid(mesh)
                      THEN UNCHANGED <<load_asset_calls, import_collection>>
                      ELSE /\ load_asset_calls' =
                                 Append(load_asset_calls, <<entity_index, mesh.asset_path>>)
                           /\ IF IsNone(obj)
                              THEN UNCHANGED import_collection
                              ELSE import_collection' =
                                       import_collection \o link_object_instance(mesh, Val(obj))
    /\ UNCHANGED <<inputs, scene_children, scene_objects, reloads>>

\* lines 420-428: a record of the light family
ImportLight ==
    /\ InLoop
    /\ HasType
    /\ Val(entity_type) \notin static_mesh_types
    /\ Val(entity_type) \in light_types
    /\ LET light == GameLight(entity)
           placed == import_light(light)
       IN  /\ constructed' = Append(constructed, <<entity_index, "GameLight">>)
           /\ IF light.raised
              THEN Raise("TypeError") /\ UNCHANGED <<import_collection, scene_objects>>
              ELSE IF GameLightInvalid(light)
              THEN /\ IF IsNone(static_mesh) THEN Raise("UnboundLocalError") ELSE NextEntity
                   /\ UNCHANGED <<import_collection, scene_objects>>
              ELSE IF placed.raised
              THEN Raise("TypeError") /\ UNCHANGED <<import_collection, scene_objects>>
              ELSE /\ import_collection' = import_collection \o placed.linked
                   /\ scene_objects' = scene_objects \o placed.linked
                   /\ NextEntity
    /\ UNCHANGED <<inputs, scene_children, static_mesh, load_asset_calls, reloads>>

\* lines 396, 420: a record of any other type falls through both branches
IgnoreOtherType ==
    /\ InLoop
    /\ HasType
    /\ Val(entity_type) \notin static_mesh_types
    /\ Val(entity_type) \notin light_types
    /\ NextEntity
    /\ UNCHANGED <<inputs, scene_children, import_collection, scene_objects, static_mesh, constructed,
                   load_asset_calls, reloads>>

\* as Finish, but run from inside the loop, before the records are exhausted
Finish_InsideLoop ==
    /\ pc = "loop"
    /\ timers' = timers + 1
    /\ result' = Some(TRUE)
    /\ pc' = "returned"
    /\ UNCHANGED <<inputs, entity_index, scene_children, import_collection, scene_objects, static_mesh,
                   constructed, load_asset_calls, reloads, exception>>

\* lines 431-433: after the loop the reload is registered and True returned
Finish ==
    /\ pc = "loop"
    /\ entity_index > Len(document)
    /\ timers' = timers + 1
    /\ result' = Some(TRUE)
    /\ pc' = "returned"
    /\ UNCHANGED <<inputs, entity_index, scene_children, import_collection, scene_objects, static_mesh,
                   constructed, load_asset_calls, reloads, exception>>

\* lines 350-352: the timer runs _library_reload, which returns None and so
\* is not run again
_library_reload ==
    /\ timers > 0
    /\ timers' = timers - 1
    /\ reloads' = reloads + 1
    /\ UNCHANGED <<inputs, pc, entity_index, scene_children, import_collection, scene_objects,
                   static_mesh, constructed, load_asset_calls, result, exception>>

Next ==
    \/ Begin
    \/ SkipNoType
    \/ ImportStaticMesh
    \/ ImportLight
    \/ IgnoreOtherType
    \/ Finish
    \/ _library_reload

Spec == Init /\ [][Next]_vars

\* ------------------------------------------------------------------------
\* Vocabulary of the properties
\* ------------------------------------------------------------------------
MeshFamily ==
    {"StaticMeshComponent", "InstancedStaticMeshComponent", "HierarchicalInstancedStaticMeshComponent"}
InstancedFamily == {"InstancedStaticMeshComponent", "HierarchicalInstancedStaticMeshComponent"}
LightFamily == {"SpotLightComponent", "PointLightComponent"}

TypeOf(record) == IF "Type" \in DOMAIN record THEN record.Type ELSE ""

\* the current record, when the loop is at a record of the given family
AtRecordOf(family) == InLoop /\ TypeOf(entity) \in family

\* the classification of the current static-mesh-family record
Classified == StaticMesh(entity, TypeOf(entity))

Disqualified(m) ==
    \/ m.no_entity \/ m.no_mesh \/ m.no_path
    \/ m.base_shape \/ m.not_rendered \/ m.no_per_instance_data

\* the record names an object path with the 'BasicShapes' marker
HasBasicShapesPath(record) ==
    /\ "Properties" \in DOMAIN record
    /\ "StaticMesh" \in DOMAIN record.Properties
    /\ "ObjectPath" \in DOMAIN record.Properties.StaticMesh
    /\ \E i \in DOMAIN record.Properties.StaticMesh.ObjectPath :
           record.Properties.StaticMesh.ObjectPath[i] = "BasicShapes"

\* what one step of the loop did
LinkedByStep == Len(import_collection') - Len(import_collection)
KeptByStep == SubSeq(import_collection', 1, Len(import_collection)) = import_collection
ResolverCalledByStep == Len(load_asset_calls') = Len(load_asset_calls) + 1
LoopContinues == pc' = "loop" /\ entity_index' = entity_index + 1

\* C1: a static-mesh-family record whose only set flags are invisible and/or
\* bad_creation_method, and whose asset resolves, is not treated as invalid:
\* the resolver is called for it and its object is linked into the collection.
C1_AdvisoryFlagsDoNotBlock ==
    [][AtRecordOf(MeshFamily)
       => LET m == Classified
          IN  (/\ ~m.raised
               /\ m.invisible \/ m.bad_creation_method
               /\ ~Disqualified(m)
               /\ ~IsNone(_load_asset(m.asset_path, resolvable)))
              => (/\ ~StaticMeshInvalid(m)
                  /\ ResolverCalledByStep
                  /\ LinkedByStep = (IF m.is_instanced THEN Len(m.instance_transforms) ELSE 1))]_vars

\* C2: for a document that parses, no exception leaves the import, whatever
\* fields its records lack; the import reaches the end of the records.
C2_NoExceptionEscapes ==
    source = "ok" => /\ pc # "raised"
                     /\ exception = ""
                     /\ (pc = "returned" => entity_index = Len(json_object) + 1)

\* C3: once the resolver has returned None for a record, the record has added
\* no object, the loop goes on over the later records and the import returns
\* true.
C3_ResolutionFailureRecoverable ==
    \A k \in 1..Len(load_asset_calls) :
        IsNone(_load_asset(load_asset_calls[k][2], resolvable))
        => /\ pc \in {"loop", "returned"}
           /\ pc = "returned" => result = Some(TRUE)
           /\ \A o \in 1..Len(import_collection) :
                  import_collection[o].data # [mesh |-> load_asset_calls[k][2]]

\* C4: when the source document is missing or is not JSON, the import returns
\* false and has done nothing: no collection linked into the scene, no record
\* classified, no object placed, no reload scheduled.
C4_FatalInputFailure ==
    (source \in {"missing", "unparsable"} /\ pc # "start")
    => /\ pc = "returned"
       /\ result = Some(FALSE)
       /\ scene_children = 0
       /\ constructed = <<>>
       /\ import_collection = <<>>
       /\ scene_objects = <<>>
       /\ timers = 0 /\ reloads = 0

\* C5: a static-mesh-family record with a disqualifying flag (no_entity,
\* no_mesh, no_path, base_shape, not_rendered, no_per_instance_data), in
\* particular one whose ObjectPath has the 'BasicShapes' marker, places no
\* object and causes no resolver call.
C5_DisqualifiedNeverResolved ==
    [][AtRecordOf(MeshFamily)
       => LET m == Classified
          IN  (HasBasicShapesPath(entity) \/ (~m.raised /\ Disqualified(m)))
              => (/\ load_asset_calls' = load_asset_calls
                  /\ import_collection' = import_collection
                  /\ scene_objects' = scene_objects)]_vars

C5_Witness ==
    /\ entity_index = 3
    /\ TypeOf(json_object[1]) \in MeshFamily
    /\ HasBasicShapesPath(json_object[1])
    /\ TypeOf(json_object[2]) \in MeshFamily
    /\ StaticMesh(json_object[2], TypeOf(json_object[2])).not_rendered
    /\ constructed = <<<<1, "StaticMesh">>, <<2, "StaticMesh">>>>
    /\ resolvable = AssetPaths
    /\ load_asset_calls = <<>>
    /\ import_collection = <<>>

C7_InvalidLightSkipped ==
    [][(/\ AtRecordOf(LightFamily)
        /\ ("Properties" \notin DOMAIN entity \/ DOMAIN entity.Properties = {}))
       => (/\ LoopContinues
           /\ import_collection' = import_collection
           /\ exception' = "")]_vars

\* C8: a light placed from a record with RelativeRotation (Roll, Pitch, Yaw)
\* has the rotation (radians(Roll), radians(Pitch), radians(Yaw)), and its
\* classification keeps the three angles in degrees, with no sign change.
C8_LightRotationUnnegated ==
    [][(/\ AtRecordOf(LightFamily)
        /\ "Properties" \in DOMAIN entity
        /\ "RelativeRotation" \in DOMAIN entity.Properties
        /\ LinkedByStep = 1)
       => LET rot == entity.Properties.RelativeRotation
          IN  /\ GameLight(entity).rot = <<Some(rot.Roll), Some(rot.Pitch), Some(rot.Yaw)>>
              /\ import_collection'[Len(import_collection')].rotation_euler
                     = <<radians(rot.Roll), radians(rot.Pitch), radians(rot.Yaw)>>]_vars

\* C9: the reload is scheduled once, by an import that has gone through all
\* its records, after the last object was linked; the import returns true at
\* that moment, before the reload has run.  An import that has not reached
\* the end of the records has scheduled nothing.
C9_ReloadScheduledOnceAtEnd ==
    /\ [](/\ timers + reloads <= 1
          /\ timers + reloads = 1
             <=> (pc = "returned" /\ result = Some(TRUE) /\ entity_index = Len(json_object) + 1)
          /\ pc \in {"start", "loop", "raised"} => timers + reloads = 0 /\ result = None)
    /\ [][/\ timers + reloads > 0 => /\ import_collection' = import_collection
                                      /\ scene_objects' = scene_objects
                                      /\ timers' + reloads' = timers + reloads
          /\ timers' > timers => (/\ result = None /\ result' = Some(TRUE)
                                  /\ reloads' = 0
                                  /\ entity_index > Len(json_object))]_vars

C9_Witness ==
    /\ pc = "returned"
    /\ result = Some(TRUE)
    /\ Len(json_object) = 2
    /\ Len(import_collection) = 2
    /\ timers = 0
    /\ reloads = 1

\* C10: a record whose Type is absent, empty or outside both families causes
\* no classification, no resolver call and no object, and the loop goes on to
\* the record after it.
C10_UnrecognizedTypeIgnored ==
    [][(InLoop /\ TypeOf(entity) \notin (MeshFamily \cup LightFamily))
       => (/\ constructed' = constructed
           /\ load_asset_calls' = load_asset_calls
           /\ import_collection' = import_collection
           /\ scene_objects' = scene_objects
           /\ static_mesh' = static_mesh
           /\ LoopContinues)]_vars

C10_Witness ==
    /\ pc = "returned"
    /\ Len(json_object) = 2
    /\ TypeOf(json_object[1]) = "SkeletalMeshComponent"
    /\ TypeOf(json_object[2]) = "StaticMeshComponent"
    /\ constructed = <<<<2, "StaticMesh">>>>
    /\ Len(load_asset_calls) = 1
    /\ Len(import_collection) = 1

====
